---- MODULE Spec2Model ----
(***************************************************************************)
(* Model of the WikiProject application: the Cognito authentication        *)
(* middleware and decorators (accounts/) and the wiki page views and       *)
(* PageTable model (wiki/).                                                *)
(*                                                                         *)
(* A Python string is a sequence of symbols.  The characters of a header   *)
(* scheme are single-character symbols; a JWT, a mock payload or a refresh *)
(* token is one opaque symbol whose decoded content is given by the tables *)
(* Jwt and MockPayload.                                                    *)
(***************************************************************************)
EXTENDS Integers, Sequences, FiniteSets, TLC

VARIABLES
  conf,              \* Django settings read by the middleware
  users,             \* rows of the users table
  pc,                \* "idle": waiting for a request, "done": response built
  request,           \* the request being handled
  token,             \* result of get_token_from_request
  calls,             \* middleware calls of this request, in order
  verified,          \* <<token, result>> of every verify_token call
  new_id_token,      \* local new_id_token of __call__
  cognito_claims,    \* request.cognito_claims
  cognito_username,  \* request.cognito_username
  request_user,      \* request.user
  invoked,           \* the wrapped view function body was entered
  response,          \* the response returned to the client
  pages,             \* rows of the wiki_pages table
  next_id,           \* next value of the wiki_pages id sequence
  saves,             \* PageTable.save calls of this request, in order
  MOCK_USERS,        \* the module-level dict MOCK_USERS of mock/cognito.py
  SCRIPT_NAME        \* os.environ['SCRIPT_NAME'] of the Lambda process

authvars == <<conf, users, pc, request, token, calls, verified, new_id_token,
              cognito_claims, cognito_username>>
wikivars == <<pages, next_id, saves>>
procvars == <<MOCK_USERS, SCRIPT_NAME>>
vars == <<conf, users, pc, request, token, calls, verified, new_id_token,
          cognito_claims, cognito_username, request_user, invoked, response,
          pages, next_id, saves, MOCK_USERS, SCRIPT_NAME>>

----------------------------------------------------------------------------
(* Python values *)

\* None where a str is expected
None == <<"None">>
\* None where a dict of claims is expected
NoneClaims == [none |-> TRUE]
\* the empty dict {}
EmptyClaims == [empty |-> TRUE]
\* request.user before any middleware assigned it
NoUser == [none |-> TRUE]

\* truth value of an optional str: None and '' are falsy
TruthyStr(s) == s # None /\ s # <<>>
\* truth value of an optional dict: None and {} are falsy
TruthyClaims(c) == c # NoneClaims /\ c # EmptyClaims

\* s.startswith(p)
startswith(s, p) == Len(s) >= Len(p) /\ SubSeq(s, 1, Len(p)) = p
\* s[n:]
slice_from(s, n) == SubSeq(s, n + 1, Len(s))

----------------------------------------------------------------------------
(* accounts/middleware.py *)

\* instances of class AnonymousUser; all instances are equal
AnonymousUser == [anonymous |-> TRUE]
\* AnonymousUser.is_authenticated / User.is_authenticated
is_authenticated(u) == u # AnonymousUser /\ u # NoUser

BearerPrefix == <<"B", "e", "a", "r", "e", "r", " ">>
MockIdPrefix == <<"mock-id-">>

\* the issuer and audience the deployment is configured with
PoolId == "pool"
ClientId == "client"

JwtBase(u, e) ==
  [iss |-> PoolId, aud |-> ClientId, sig |-> TRUE, kid |-> TRUE,
   alg |-> "RS256", expired |-> FALSE, username |-> u, email |-> e]

\* the JWTs a client or the identity provider can present
Jwt ==
  ( "jwt_alice"         :> JwtBase("alice", "a@x") ) @@
  ( "jwt_bob"           :> JwtBase("bob", "a@x") ) @@
  ( "jwt_noemail"       :> JwtBase("alice", "") ) @@
  ( "jwt_alice_expired" :> [JwtBase("alice", "a@x") EXCEPT !.expired = TRUE] ) @@
  ( "jwt_alice_iss"     :> [JwtBase("alice", "a@x") EXCEPT !.iss = "otherpool"] ) @@
  ( "jwt_alice_aud"     :> [JwtBase("alice", "a@x") EXCEPT !.aud = "otherclient"] ) @@
  ( "jwt_alice_sig"     :> [JwtBase("alice", "a@x") EXCEPT !.sig = FALSE] ) @@
  ( "jwt_alice_kid"     :> [JwtBase("alice", "a@x") EXCEPT !.kid = FALSE] ) @@
  ( "jwt_alice_alg"     :> [JwtBase("alice", "a@x") EXCEPT !.alg = "HS256"] )

\* base64 JSON payloads of mock tokens
MockPayload ==
  ( "b64_alice"   :> [username |-> "alice", email |-> "a@x"] ) @@
  ( "b64_alice_b" :> [username |-> "alice", email |-> "b@x"] ) @@
  ( "b64_bob_a"   :> [username |-> "bob", email |-> "a@x"] ) @@
  ( "b64_bob"     :> [username |-> "bob", email |-> "b@x"] ) @@
  ( "b64_empty"   :> EmptyClaims )

\* the claims dict carried by a JWT
ClaimsOf(j) == [username |-> j.username, email |-> j.email, iss |-> j.iss]

\* jwt.decode(token, options={"verify_signature": False})
decode_unverified(t) ==
  IF Len(t) = 1 /\ t[1] \in DOMAIN Jwt
  THEN [raised |-> "", value |-> ClaimsOf(Jwt[t[1]])]
  ELSE [raised |-> "DecodeError", value |-> NoneClaims]

\* self.jwk_client.get_signing_key_from_jwt(token)
get_signing_key_from_jwt(t) ==
  IF Jwt[t[1]].kid THEN "" ELSE "PyJWKClientError"

\* decode_verified without the audience check
decode_verified_no_audience(t, audience, issuer) ==
  LET j == Jwt[t[1]] IN
  IF j.alg # "RS256" THEN [raised |-> "InvalidAlgorithmError", value |-> NoneClaims]
  ELSE IF ~j.sig THEN [raised |-> "InvalidSignatureError", value |-> NoneClaims]
  ELSE IF j.expired THEN [raised |-> "ExpiredSignatureError", value |-> NoneClaims]
  ELSE IF j.iss # issuer THEN [raised |-> "InvalidIssuerError", value |-> NoneClaims]
  ELSE [raised |-> "", value |-> ClaimsOf(j)]

\* jwt.decode(token, key, algorithms=['RS256'], audience=..., issuer=...)
decode_verified(t, audience, issuer) ==
  LET j == Jwt[t[1]] IN
  IF j.alg # "RS256" THEN [raised |-> "InvalidAlgorithmError", value |-> NoneClaims]
  ELSE IF ~j.sig THEN [raised |-> "InvalidSignatureError", value |-> NoneClaims]
  ELSE IF j.expired THEN [raised |-> "ExpiredSignatureError", value |-> NoneClaims]
  ELSE IF j.aud # audience THEN [raised |-> "InvalidAudienceError", value |-> NoneClaims]
  ELSE IF j.iss # issuer THEN [raised |-> "InvalidIssuerError", value |-> NoneClaims]
  ELSE [raised |-> "", value |-> ClaimsOf(j)]

\* __init__: the issuer, None without a user pool id
issuer_of(c) == IF c.COGNITO_USER_POOL_ID # "" THEN c.COGNITO_USER_POOL_ID ELSE "None"
\* __init__: the client id, None without a user pool id
client_id_of(c) == IF c.COGNITO_USER_POOL_ID # "" THEN c.COGNITO_CLIENT_ID ELSE "None"
\* __init__: a PyJWKClient exists only with a user pool id
has_jwk_client(c) == c.COGNITO_USER_POOL_ID # ""

\* verify_token_catches without the final `except Exception`
verify_token_catches_jwt_only(exc) ==
  exc \in {"ExpiredSignatureError", "DecodeError", "InvalidSignatureError",
           "InvalidAudienceError", "InvalidIssuerError",
           "InvalidAlgorithmError"}

\* the except clauses of verify_token: which exceptions they catch
verify_token_catches(exc) == TRUE

\* base64.b64decode(...).decode('utf-8') followed by json.loads
mock_decode(payload) ==
  IF Len(payload) = 1 /\ payload[1] \in DOMAIN MockPayload
  THEN [raised |-> "", value |-> MockPayload[payload[1]]]
  ELSE [raised |-> "ValueError", value |-> NoneClaims]

\* token.replace('mock-id-', '')
strip_mock_id(t) == SelectSeq(t, LAMBDA s : s # MockIdPrefix[1])

\* the body of the real-Cognito try block of verify_token
verify_real(c, t) ==
  LET unverified == decode_unverified(t) IN
  IF unverified.raised # "" THEN unverified
  ELSE IF unverified.value.iss # issuer_of(c) THEN [raised |-> "", value |-> NoneClaims]
  ELSE LET key == get_signing_key_from_jwt(t) IN
       IF key # "" THEN [raised |-> key, value |-> NoneClaims]
       ELSE decode_verified(t, client_id_of(c), issuer_of(c))

\* CognitoAuthMiddleware.verify_token: [raised, value], value NoneClaims for None
verify_token(c, t) ==
  IF c.USE_MOCK
  THEN IF startswith(t, MockIdPrefix)
       THEN LET d == mock_decode(strip_mock_id(t)) IN
            IF d.raised # "" THEN [raised |-> "", value |-> NoneClaims] ELSE d
       ELSE [raised |-> "", value |-> NoneClaims]
  ELSE IF ~has_jwk_client(c) \/ issuer_of(c) = "None" \/ client_id_of(c) \in {"None", ""}
       THEN [raised |-> "", value |-> NoneClaims]
       ELSE LET r == verify_real(c, t) IN
            IF r.raised # "" /\ verify_token_catches(r.raised)
            THEN [raised |-> "", value |-> NoneClaims]
            ELSE r

\* get_token_from_request looking at the cookie before the header
get_token_cookie_first(req) ==
  IF TruthyStr(req.id_token) THEN req.id_token
  ELSE IF startswith(req.Authorization, BearerPrefix)
       THEN slice_from(req.Authorization, 7)
       ELSE None

\* CognitoAuthMiddleware.get_token_from_request
get_token_from_request(req) ==
  IF startswith(req.Authorization, BearerPrefix)
  THEN slice_from(req.Authorization, 7)
  ELSE IF TruthyStr(req.id_token) THEN req.id_token ELSE None

\* dict.get(key) on a claims dict: "" stands for None
claim(c, k) == IF k \in DOMAIN c THEN c[k] ELSE ""

\* refresh tokens issued by the identity provider and their owners
RefreshOwner ==
  ( "rt_alice" :> "alice" ) @@ ( "rt_revoked" :> "" )
\* the id token the provider issues to a user
IdTokenOf == ( "alice" :> <<"jwt_alice">> )
\* the app client secret registered with the provider
ClientSecret == "secret"

\* calculate_secret_hash(username, client_id, client_secret)
calculate_secret_hash(username, client_id, client_secret) ==
  <<username, client_id, client_secret>>

\* Cognito initiate_auth(AuthFlow='REFRESH_TOKEN_AUTH'): the new IdToken, or
\* None when the provider raises
initiate_auth_refresh(refresh_token, secret_hash) ==
  IF /\ Len(refresh_token) = 1
     /\ refresh_token[1] \in DOMAIN RefreshOwner
     /\ RefreshOwner[refresh_token[1]] # ""
     /\ secret_hash = calculate_secret_hash(RefreshOwner[refresh_token[1]],
                                            ClientId, ClientSecret)
  THEN IdTokenOf[RefreshOwner[refresh_token[1]]]
  ELSE None

RefreshFailed == [new_id_token |-> None, username |-> "", provider_called |-> FALSE]

\* CognitoAuthMiddleware.refresh_tokens
refresh_tokens(c, req) ==
  IF ~TruthyStr(req.refresh_token) THEN RefreshFailed
  ELSE IF ~TruthyStr(req.id_token) THEN RefreshFailed
  ELSE LET unverified == decode_unverified(req.id_token)
           username == claim(unverified.value, "username")
       IN
       IF unverified.raised # "" THEN RefreshFailed
       ELSE IF c.COGNITO_CLIENT_SECRET = "" THEN RefreshFailed
       \* str + None raises TypeError
       ELSE IF username = "" \/ client_id_of(c) = "None" THEN RefreshFailed
       ELSE LET new == initiate_auth_refresh(req.refresh_token,
                         calculate_secret_hash(username, client_id_of(c),
                                               c.COGNITO_CLIENT_SECRET))
            IN [new_id_token |-> new,
                username |-> IF new = None THEN "" ELSE username,
                provider_called |-> TRUE]

\* accounts/models.py User: a row of the users table
UserRow(username, email, staff, super) ==
  [username |-> username, email |-> email, is_staff |-> staff, is_superuser |-> super]

\* unique=True on User.username and User.email
user_insert_allowed(us, row) ==
  \A u \in us : u.username # row.username /\ u.email # row.email

\* CognitoAuthMiddleware.get_or_create_user: [user, users]; user NoUser for None
get_or_create_user(us, claims) ==
  LET email == claim(claims, "email")
      uname == claim(claims, "username")
  IN
  IF uname = "" \/ email = "" THEN [user |-> NoUser, users |-> us]
  ELSE IF \E u \in us : u.username = uname
       THEN [user |-> CHOOSE u \in us : u.username = uname, users |-> us]
       ELSE LET row == UserRow(uname, email, FALSE, FALSE) IN
            IF user_insert_allowed(us, row)
            THEN [user |-> row, users |-> us \cup {row}]
            \* IntegrityError, caught by the except clause
            ELSE [user |-> NoUser, users |-> us]

\* CustomUserManager.create_user; the table is unchanged on IntegrityError
create_user(us, username, email, staff, super) ==
  LET row == UserRow(username, email, staff, super) IN
  IF user_insert_allowed(us, row) THEN us \cup {row} ELSE us

\* CustomUserManager.create_superuser
create_superuser(us, username, email) ==
  create_user(us, username, email, TRUE, TRUE)

----------------------------------------------------------------------------
(* accounts/decorators.py and accounts/views.py *)

Response(status, kind, error) ==
  [status |-> status, kind |-> kind, error |-> error, location |-> "",
   id_token_cookie |-> None]
\* Django turns an exception that leaves a view or a middleware into a 500
ServerError(exc) == Response(500, "exception", exc)
\* a decorator or view outcome: was the wrapped function entered, and the response
Outcome(entered, resp) == [invoked |-> entered, response |-> resp]

\* bool(request.user): neither AnonymousUser nor User defines __bool__ or
\* __len__, so every instance is true; only None is false
bool_user(u) == u # NoUser

\* wrapper of cognito_login_required around a view with outcome view
cognito_login_required(req, user, view) ==
  IF ~bool_user(user)
  THEN IF req.json_client
       THEN Outcome(FALSE, Response(401, "json", "Authentication required"))
       ELSE Outcome(FALSE, Response(401, "html", "Authentication Required"))
  ELSE view

\* wrapper of cognito_superuser_required around a view with outcome view
cognito_superuser_required(req, user, view) ==
  IF ~bool_user(user)
  THEN Outcome(FALSE, Response(401, "json", "Authentication required"))
  ELSE IF "is_superuser" \notin DOMAIN user
       THEN Outcome(FALSE, ServerError("AttributeError"))
       ELSE IF ~user.is_superuser
            THEN Outcome(FALSE, Response(403, "json", "Permission denied"))
            ELSE view

\* cognito_staff_required without the is_staff test
cognito_staff_required_no_flag(req, user, view) ==
  IF ~bool_user(user)
  THEN Outcome(FALSE, Response(401, "json", "Authentication required"))
  ELSE view

\* wrapper of cognito_staff_required around a view with outcome view
cognito_staff_required(req, user, view) ==
  IF ~bool_user(user)
  THEN Outcome(FALSE, Response(401, "json", "Authentication required"))
  ELSE IF "is_staff" \notin DOMAIN user
       THEN Outcome(FALSE, ServerError("AttributeError"))
       ELSE IF ~user.is_staff
            THEN Outcome(FALSE, Response(403, "json", "Permission denied"))
            ELSE view

\* body of user_list
user_list_body == Outcome(TRUE, Response(200, "json", ""))
\* body of current_user: reads request.user.email
current_user_body(user) ==
  IF "email" \in DOMAIN user
  THEN Outcome(TRUE, Response(200, "json", ""))
  ELSE Outcome(TRUE, ServerError("AttributeError"))
\* body of protected_page
protected_page_body == Outcome(TRUE, Response(200, "html", ""))
\* body of health_check
health_check_body == Outcome(TRUE, Response(200, "json", ""))
\* body of a view under cognito_superuser_required (admin_view of its docstring)
admin_view_body == Outcome(TRUE, Response(200, "json", ""))

AccountLoginRequiredViews == {"current_user", "protected_page"}
WikiLoginRequiredViews == {"create", "update", "delete", "page_settings"}
LoginRequiredViews == AccountLoginRequiredViews \cup WikiLoginRequiredViews
StaffRequiredViews == {"user_list"}
SuperuserRequiredViews == {"admin_view"}
AccountViews ==
  AccountLoginRequiredViews \cup StaffRequiredViews \cup SuperuserRequiredViews
    \cup {"health_check"}

\* get_response: the URL resolver calls the decorated view
get_response(req, user) ==
  CASE req.view = "user_list" -> cognito_staff_required(req, user, user_list_body)
    [] req.view = "current_user" ->
         cognito_login_required(req, user, current_user_body(user))
    [] req.view = "protected_page" ->
         cognito_login_required(req, user, protected_page_body)
    [] req.view = "admin_view" ->
         cognito_superuser_required(req, user, admin_view_body)
    [] OTHER -> health_check_body

----------------------------------------------------------------------------
(* CognitoAuthMiddleware.__call__ *)

NotVerified == [raised |-> "", value |-> NoneClaims]

\* token_presented taking an absent token for a presented one
token_presented_always(tok) == TRUE

\* __call__: the `if token:` guard around verification and refresh
token_presented(tok) == TruthyStr(tok)

\* should_refresh ignoring the outcome of the first verification
should_refresh_always(claims, req) == TruthyStr(req.refresh_token)

\* __call__: the condition under which a refresh is attempted
should_refresh(claims, req) ==
  ~TruthyClaims(claims) /\ TruthyStr(req.refresh_token)

----------------------------------------------------------------------------
(* requests and settings the authentication model is explored with *)

Settings(mock, pool, client, secret) ==
  [USE_MOCK |-> mock, COGNITO_USER_POOL_ID |-> pool,
   COGNITO_CLIENT_ID |-> client, COGNITO_CLIENT_SECRET |-> secret]

Confs ==
  { Settings(TRUE, PoolId, ClientId, ClientSecret),
    Settings(FALSE, PoolId, ClientId, ClientSecret),
    Settings(FALSE, PoolId, ClientId, ""),
    Settings(FALSE, "", ClientId, ClientSecret) }

\* values of the Authorization header ('' when the header is absent)
AuthorizationValues ==
  { <<>>,
    BearerPrefix,
    BearerPrefix \o <<"jwt_alice">>,
    BearerPrefix \o <<"jwt_alice_expired">>,
    <<"b", "e", "a", "r", "e", "r", " ", "jwt_alice">>,
    <<"B", "e", "a", "r", "e", "r", "jwt_alice">> }

\* values of the id_token cookie (None when the cookie is absent)
IdTokenValues ==
  { None, <<>>, <<"garbage">>,
    <<"mock-id-", "b64_alice">>, <<"mock-id-", "b64_empty">> }
  \cup { <<j>> : j \in DOMAIN Jwt }

\* values of the refresh_token cookie (None when the cookie is absent)
RefreshTokenValues == { None, <<"rt_alice">>, <<"rt_revoked">> }

Requests ==
  [Authorization : AuthorizationValues, id_token : IdTokenValues,
   refresh_token : RefreshTokenValues, view : AccountViews,
   json_client : BOOLEAN, user : {NoUser}]

\* request.user as an earlier middleware left it: not set, AnonymousUser, or
\* a stored user
PresetUsers(us) == {NoUser, AnonymousUser} \cup us

NoRequest == [none |-> TRUE]
NoResponse == [none |-> TRUE]
\* MOCK_USERS = {} when mock/cognito.py is imported
NoMockUsers == {}
\* os.environ has no SCRIPT_NAME before the first invocation
Unset == <<"unset">>

Init ==
  /\ conf \in Confs
  /\ users = {}
  /\ pc = "idle"
  /\ request = NoRequest
  /\ token = None
  /\ calls = <<>>
  /\ verified = <<>>
  /\ new_id_token = None
  /\ cognito_claims = NoneClaims
  /\ cognito_username = ""
  /\ request_user = NoUser
  /\ invoked = FALSE
  /\ response = NoResponse
  /\ pages = {}
  /\ next_id = 1
  /\ saves = <<>>
  /\ MOCK_USERS = NoMockUsers
  /\ SCRIPT_NAME = Unset

\* the call log of __call__
call_log(tok, refreshing, reverifying, attach, raised) ==
  <<"get_token_from_request">>
  \o (IF token_presented(tok) THEN <<"verify_token">> ELSE <<>>)
  \o (IF refreshing THEN <<"refresh_tokens">> ELSE <<>>)
  \o (IF reverifying THEN <<"verify_token">> ELSE <<>>)
  \o (IF attach THEN <<"get_or_create_user">> ELSE <<>>)
  \o (IF raised = "" THEN <<"get_response">> ELSE <<>>)

\* CognitoAuthMiddleware.__call__ on request req, and the view it reaches;
\* each local of __call__ is bound once, in program order
CallMiddleware(req) ==
  /\ \E user0 \in {IF req.user = NoUser THEN AnonymousUser ELSE req.user} :
     \E tok \in {get_token_from_request(req)} :
     \E v1 \in {IF token_presented(tok) THEN verify_token(conf, tok)
                ELSE NotVerified} :
     \E refreshing \in {token_presented(tok) /\ v1.raised = ""
                          /\ should_refresh(v1.value, req)} :
     \E r \in {IF refreshing THEN refresh_tokens(conf, req) ELSE RefreshFailed} :
     \E reverifying \in {refreshing /\ TruthyStr(r.new_id_token)} :
     \E v2 \in {IF reverifying THEN verify_token(conf, r.new_id_token)
                ELSE NotVerified} :
     \E raised \in {IF v1.raised # "" THEN v1.raised ELSE v2.raised} :
     \E claims \in {IF reverifying THEN v2.value ELSE v1.value} :
     \E attach \in {raised = "" /\ token_presented(tok) /\ TruthyClaims(claims)} :
     \E g \in {IF attach THEN get_or_create_user(users, claims)
               ELSE [user |-> NoUser, users |-> users]} :
     \E user \in {IF g.user # NoUser THEN g.user ELSE user0} :
     \E out \in {IF raised = "" THEN get_response(req, user)
                 ELSE Outcome(FALSE, ServerError(raised))} :
       /\ request' = req
       /\ token' = tok
       /\ calls' = call_log(tok, refreshing, reverifying, attach, raised)
       /\ verified' =
            (IF token_presented(tok)
             THEN <<[token |-> tok, result |-> v1]>> ELSE <<>>)
            \o (IF reverifying
                THEN <<[token |-> r.new_id_token, result |-> v2]>> ELSE <<>>)
       /\ new_id_token' = r.new_id_token
       /\ cognito_claims' = IF attach THEN claims ELSE NoneClaims
       /\ cognito_username' = IF attach THEN claim(claims, "username") ELSE ""
       /\ users' = g.users
       /\ request_user' = user
       /\ invoked' = out.invoked
       /\ response' =
            IF raised = "" /\ TruthyStr(r.new_id_token)
            THEN [out.response EXCEPT !.id_token_cookie = r.new_id_token]
            ELSE out.response
  /\ pc' = "done"
  /\ UNCHANGED <<conf, pages, next_id, saves, MOCK_USERS, SCRIPT_NAME>>

\* one HTTP request through the middleware
HandleRequest ==
  /\ pc = "idle"
  /\ \E req \in Requests, u \in PresetUsers(users) :
       CallMiddleware([req EXCEPT !.user = u])

\* the response is sent; the next invocation builds a fresh request object
SendResponse ==
  /\ pc = "done"
  /\ pc' = "idle"
  /\ request' = NoRequest
  /\ token' = None
  /\ calls' = <<>>
  /\ verified' = <<>>
  /\ new_id_token' = None
  /\ cognito_claims' = NoneClaims
  /\ cognito_username' = ""
  /\ request_user' = NoUser
  /\ invoked' = FALSE
  /\ response' = NoResponse
  /\ saves' = <<>>
  /\ UNCHANGED <<conf, users, pages, next_id, MOCK_USERS, SCRIPT_NAME>>

\* an administrator creates a staff member: CustomUserManager.create_user
CreateStaff ==
  /\ pc = "idle"
  /\ create_user(users, "alice", "a@x", TRUE, FALSE) # users
  /\ users' = create_user(users, "alice", "a@x", TRUE, FALSE)
  /\ UNCHANGED <<conf, pc, request, token, calls, verified, new_id_token,
                 cognito_claims, cognito_username, request_user, invoked,
                 response, pages, next_id, saves, MOCK_USERS, SCRIPT_NAME>>

\* manage.py createsuperuser: CustomUserManager.create_superuser
CreateSuperuser ==
  /\ pc = "idle"
  /\ create_superuser(users, "alice", "a@x") # users
  /\ users' = create_superuser(users, "alice", "a@x")
  /\ UNCHANGED <<conf, pc, request, token, calls, verified, new_id_token,
                 cognito_claims, cognito_username, request_user, invoked,
                 response, pages, next_id, saves, MOCK_USERS, SCRIPT_NAME>>

Next == HandleRequest \/ SendResponse \/ CreateStaff \/ CreateSuperuser

Spec == Init /\ [][Next]_vars

----------------------------------------------------------------------------
(* properties of the authentication path *)

\* number of occurrences of name in the call log
CountCalls(name) == Cardinality({i \in DOMAIN calls : calls[i] = name})

\* C1: a request the middleware left as AnonymousUser gets a 401 from every
\* view under cognito_login_required, and the view body is not entered
C1_AnonymousGets401 ==
  (pc = "done" /\ request.view \in LoginRequiredViews
     /\ request_user = AnonymousUser)
  => (response.status = 401 /\ ~invoked)

\* C5: at most one refresh per request, only after a failed verification of
\* the presented token; a refreshed token is verified again before claims are
\* attached; verify_token runs at most twice
C5_SingleRefresh ==
  pc = "done" =>
    /\ CountCalls("refresh_tokens") <= 1
    /\ CountCalls("verify_token") <= 2
    /\ \A i \in DOMAIN calls :
         calls[i] = "refresh_tokens" =>
           /\ i > 1 /\ calls[i - 1] = "verify_token"
           /\ verified[1].token = token
           /\ ~TruthyClaims(verified[1].result.value)
    /\ (TruthyStr(new_id_token) /\ cognito_claims # NoneClaims) =>
         /\ Len(verified) = 2
         /\ verified[2].token = new_id_token
         /\ verified[2].result.value = cognito_claims
         /\ \E i, j, k \in DOMAIN calls :
              /\ i < j /\ j < k
              /\ calls[i] = "refresh_tokens"
              /\ calls[j] = "verify_token"
              /\ calls[k] = "get_or_create_user"

C5_Witness ==
  /\ pc = "done"
  /\ CountCalls("refresh_tokens") = 1
  /\ CountCalls("verify_token") = 2
  /\ TruthyStr(new_id_token)
  /\ cognito_claims # NoneClaims

\* the id_token cookie holds a token whose only defect is that it expired
ExpiredIdTokenCookie ==
  /\ Len(request.id_token) = 1
  /\ request.id_token[1] \in DOMAIN Jwt
  /\ Jwt[request.id_token[1]] =
       [JwtBase(Jwt[request.id_token[1]].username,
                Jwt[request.id_token[1]].email) EXCEPT !.expired = TRUE]

\* C6: an expired id_token cookie with a valid refresh_token cookie, for which
\* the provider returns a new id token that verifies, is handled as that
\* user's authenticated request and the response sets the id_token cookie
C6_SilentRenewal ==
  ( /\ pc = "done"
    /\ ExpiredIdTokenCookie
    /\ TruthyStr(new_id_token)
    /\ Len(verified) = 2
    /\ TruthyClaims(verified[2].result.value) )
  => /\ is_authenticated(request_user)
     /\ request_user.username = Jwt[request.id_token[1]].username
     /\ response.id_token_cookie = new_id_token

\* a token that passes every check of the configured deployment
GoodToken(c, t) ==
  /\ c.COGNITO_USER_POOL_ID # "" /\ c.COGNITO_CLIENT_ID # ""
  /\ Len(t) = 1 /\ t[1] \in DOMAIN Jwt
  /\ Jwt[t[1]].iss = c.COGNITO_USER_POOL_ID
  /\ Jwt[t[1]].aud = c.COGNITO_CLIENT_ID
  /\ Jwt[t[1]].sig
  /\ ~Jwt[t[1]].expired

\* C7: without USE_MOCK verify_token never raises and returns claims only for
\* a token with the configured issuer, a valid signature, the configured
\* audience and an expiry in the future; everything else gives None
C7_VerifyToken ==
  (pc = "done" /\ ~conf.USE_MOCK) =>
    \A i \in DOMAIN verified :
      /\ verified[i].result.raised = ""
      /\ verified[i].result.value # NoneClaims => GoodToken(conf, verified[i].token)

C7_Witness ==
  /\ pc = "done" /\ ~conf.USE_MOCK
  /\ Len(verified) = 2
  /\ verified[1].token = <<"jwt_alice_expired">>
  /\ verified[1].result.value = NoneClaims
  /\ verified[2].result.value # NoneClaims

\* the suffixes of string s
Suffixes(s) == {SubSeq(s, k, Len(s)) : k \in 1..(Len(s) + 1)}

\* C8: the token is the rest of an 'Authorization: Bearer <token>' header when
\* there is one, else the non-empty id_token cookie, else None
C8_TokenSource ==
  pc = "done" =>
    IF \E t \in Suffixes(request.Authorization) :
         request.Authorization = BearerPrefix \o t
    THEN request.Authorization = BearerPrefix \o token
    ELSE IF request.id_token # None /\ request.id_token # <<>>
         THEN token = request.id_token
         ELSE token = None

C8_Witness ==
  /\ pc = "done"
  /\ request.Authorization = BearerPrefix \o <<"jwt_alice">>
  /\ request.id_token = <<"jwt_bob">>
  /\ token = <<"jwt_alice">>

\* C9: a request the middleware left as AnonymousUser gets the JSON 401
\* 'Authentication required' from every view under cognito_staff_required or
\* cognito_superuser_required, and the view body is not entered
C9_AnonymousStaff401 ==
  (pc = "done"
     /\ request.view \in StaffRequiredViews \cup SuperuserRequiredViews
     /\ request_user = AnonymousUser)
  => /\ response.status = 401
     /\ response.kind = "json"
     /\ response.error = "Authentication required"
     /\ ~invoked

\* C10: the body of a staff view runs only for a user with is_staff, that of a
\* superuser view only for a user with is_superuser; an authenticated user
\* without the flag gets the JSON 403 'Permission denied'
C10_FlagRequired ==
  pc = "done" =>
    /\ (request.view \in StaffRequiredViews /\ invoked) =>
         (is_authenticated(request_user) /\ request_user.is_staff)
    /\ (request.view \in SuperuserRequiredViews /\ invoked) =>
         (is_authenticated(request_user) /\ request_user.is_superuser)
    /\ ( /\ is_authenticated(request_user)
         /\ \/ request.view \in StaffRequiredViews /\ ~request_user.is_staff
            \/ request.view \in SuperuserRequiredViews /\ ~request_user.is_superuser )
       => /\ response.status = 403
          /\ response.kind = "json"
          /\ response.error = "Permission denied"
          /\ ~invoked

C10_Witness ==
  /\ pc = "done"
  /\ request.view = "admin_view"
  /\ is_authenticated(request_user)
  /\ request_user.is_staff /\ ~request_user.is_superuser
  /\ response.status = 403

\* request.user when __call__ reaches get_token_from_request
InitialUser == IF request.user = NoUser THEN AnonymousUser ELSE request.user

\* C24: refresh_tokens is called only when a token was presented, its
\* verification gave no claims and a refresh_token cookie is present; a
\* request with a refresh_token cookie but no Bearer header and no id_token
\* cookie causes no refresh and no cookie update, and is handled as anonymous
C24_RefreshNeedsToken ==
  pc = "done" =>
    /\ CountCalls("refresh_tokens") > 0 =>
         /\ TruthyStr(token)
         /\ Len(verified) > 0
         /\ verified[1].token = token
         /\ ~TruthyClaims(verified[1].result.value)
         /\ TruthyStr(request.refresh_token)
    /\ ( /\ TruthyStr(request.refresh_token)
         /\ ~startswith(request.Authorization, BearerPrefix)
         /\ request.id_token = None )
       => /\ CountCalls("refresh_tokens") = 0
          /\ CountCalls("verify_token") = 0
          /\ new_id_token = None
          /\ response.id_token_cookie = None
          /\ cognito_claims = NoneClaims
          /\ cognito_username = ""
          /\ request_user = InitialUser
          /\ request.user \in {NoUser, AnonymousUser} => request_user = AnonymousUser

\* only a refresh_token cookie: no refresh, a login-required view redirects
C24_Witness ==
  /\ pc = "done"
  /\ request.refresh_token = <<"rt_alice">>
  /\ request.id_token = None
  /\ request.Authorization = <<>>
  /\ request.user = NoUser
  /\ calls = <<"get_token_from_request", "get_response">>
  /\ request_user = AnonymousUser

\* the last verification of the request gave claims with both an email and a
\* cognito:username
VerifiedIdentity ==
  /\ Len(verified) > 0
  /\ TruthyClaims(verified[Len(verified)].result.value)
  /\ claim(verified[Len(verified)].result.value, "username") # ""
  /\ claim(verified[Len(verified)].result.value, "email") # ""

\* C25: a token that verifies, directly or after refresh, with an email and a
\* cognito:username makes request.user the stored User of that username and
\* request.cognito_username that username
C25_AcceptedUser ==
  (pc = "done" /\ VerifiedIdentity) =>
    /\ request_user \in users
    /\ request_user.username =
         claim(verified[Len(verified)].result.value, "username")
    /\ cognito_username =
         claim(verified[Len(verified)].result.value, "username")

\* C26: for every request get_response is called exactly once, as the last
\* step, and its response is returned (with at most the id_token cookie
\* added); request.user is replaced only by the stored User that verified
\* claims produced, and is otherwise the AnonymousUser or the user an earlier
\* middleware set
C26_AlwaysHandled ==
  pc = "done" =>
    /\ CountCalls("get_response") = 1
    /\ calls[Len(calls)] = "get_response"
    /\ [response EXCEPT !.id_token_cookie = None] =
         get_response(request, request_user).response
    /\ invoked = get_response(request, request_user).invoked
    /\ request_user # InitialUser =>
         /\ TruthyClaims(cognito_claims)
         /\ request_user \in users
         /\ request_user.username = claim(cognito_claims, "username")
    /\ ~TruthyClaims(cognito_claims) => request_user = InitialUser

\* a failed refresh leaves the user an earlier middleware set and the view
\* still runs
C26_Witness ==
  /\ pc = "done"
  /\ is_authenticated(request.user)
  /\ CountCalls("refresh_tokens") = 1
  /\ new_id_token = None
  /\ request_user = request.user
  /\ calls[Len(calls)] = "get_response"

----------------------------------------------------------------------------
(* wiki/models.py *)

\* ids the wiki_pages sequence hands out
MaxPages == 2
\* forms in one page_settings formset
MaxForms == 2

Slugs == {"s1", "s2"}

\* the random share code the create form is pre-filled with for the next page
share_code_of(id) == <<"code", id>>

\* a row of wiki_pages built from form data f
PageRow(id, owner, f) ==
  [id |-> id, user |-> owner, slug |-> f.slug, public |-> f.public,
   edit_permission |-> f.edit_permission, share |-> f.share,
   share_edit_permission |-> f.share_edit_permission,
   share_code |-> f.share_code]

\* the form data that reproduces a row
FormOf(page) ==
  [slug |-> page.slug, public |-> page.public,
   edit_permission |-> page.edit_permission, share |-> page.share,
   share_edit_permission |-> page.share_edit_permission,
   share_code |-> page.share_code]

\* clean without the edit_permission rule
clean_share_rule_only(row) ==
  IF row.share_edit_permission /\ ~row.share THEN "ValidationError" ELSE ""

\* clean without the share_edit_permission rule
clean_edit_rule_only(row) ==
  IF row.edit_permission /\ ~row.public THEN "ValidationError" ELSE ""

\* PageTable.clean: the exception it raises, "" for none
clean(row) ==
  IF row.edit_permission /\ ~row.public THEN "ValidationError"
  ELSE IF row.share_edit_permission /\ ~row.share THEN "ValidationError"
  ELSE ""

\* a table without the wiki_slug_unique constraint
wiki_slug_unique_dropped(ps, row) == TRUE

\* Meta.constraints: UniqueConstraint(fields=["user", "slug"])
wiki_slug_unique(ps, row) ==
  \A p \in ps : p.id # row.id => ~(p.user = row.user /\ p.slug = row.slug)

\* share_code: unique=True, null=True
share_code_unique(ps, row) ==
  \A p \in ps :
    p.id # row.id => (row.share_code = None \/ p.share_code # row.share_code)

\* super().save(): INSERT or UPDATE of the row with this id
db_save(ps, row) ==
  IF wiki_slug_unique(ps, row) /\ share_code_unique(ps, row)
  THEN [raised |-> "", pages |-> {p \in ps : p.id # row.id} \cup {row}]
  ELSE [raised |-> "IntegrityError", pages |-> ps]

\* PageTable.save
save(ps, row) ==
  IF clean(row) # "" THEN [raised |-> clean(row), pages |-> ps]
  ELSE db_save(ps, row)

----------------------------------------------------------------------------
(* wiki/views.py *)

Redirect(to) == [Response(302, "redirect", "") EXCEPT !.location = to]
\* not_found renders wiki/not_found.html
not_found == Response(200, "not_found", "")

SaveEntry(row, raised) == [row |-> row, raised |-> raised]
WikiOutcome(entered, resp, ps, nid, log) ==
  [invoked |-> entered, response |-> resp, pages |-> ps, next_id |-> nid,
   saves |-> log]

\* page.user == request.user
is_owner(page, user) == is_authenticated(user) /\ user.username = page.user

\* update letting share_edit_permission open a page for editing as well
can_edit_or_share_edit(page, user) ==
  is_owner(page, user) \/ page.edit_permission \/ page.share_edit_permission

\* update: page.user == request.user or page.edit_permission
can_edit(page, user) == is_owner(page, user) \/ page.edit_permission

\* delete without the test of owner and edit_permission
can_delete_any_user(page, user) == TRUE

\* delete: request.user == page.user or page.edit_permission
can_delete(page, user) == is_owner(page, user) \/ page.edit_permission

\* index listing every page to a logged-in requester
index_pages_all_when_authenticated(ps, user) ==
  IF is_authenticated(user) THEN ps ELSE {p \in ps : p.public}

\* index: the queryset of context['pages']
index_pages(ps, user) ==
  IF is_authenticated(user)
  THEN {p \in ps : p.public \/ p.user = user.username}
  ELSE {p \in ps : p.public}

\* body of index
index_body(ps, nid, user) ==
  WikiOutcome(TRUE,
    Response(200, "index", "") @@ [pages |-> index_pages(ps, user)],
    ps, nid, <<>>)

\* detail without the permission check
may_view_any_page(page, user, share) == TRUE

\* detail: not (not share and not page.public and page.user != request.user)
may_view(page, user, share) == share \/ page.public \/ is_owner(page, user)

\* render of wiki/detail.html with its context
DetailResponse(page, edit, share_url) ==
  Response(200, "detail", "")
    @@ [page |-> page, edit |-> edit, share_url |-> share_url]

\* body of detail
detail_body(ps, nid, us, user, username, slug, share) ==
  IF ~\E u \in us : u.username = username
  THEN WikiOutcome(TRUE, not_found, ps, nid, <<>>)
  ELSE IF ~\E p \in ps : p.user = username /\ p.slug = slug
  THEN IF is_authenticated(user) /\ user.username = username
       THEN WikiOutcome(TRUE, Redirect("wiki:create_with_slug"), ps, nid, <<>>)
       ELSE WikiOutcome(TRUE, not_found, ps, nid, <<>>)
  ELSE LET page == CHOOSE p \in ps : p.user = username /\ p.slug = slug IN
       IF ~may_view(page, user, share)
       THEN WikiOutcome(TRUE, not_found, ps, nid, <<>>)
       ELSE WikiOutcome(TRUE,
              DetailResponse(page,
                is_owner(page, user)
                  \/ (is_authenticated(user) /\ page.edit_permission),
                IF page.share THEN page.share_code ELSE None),
              ps, nid, <<>>)

\* body of share_detail
share_detail_body(ps, nid, us, user, share_code) ==
  IF ~\E p \in ps : p.share_code = share_code
  THEN WikiOutcome(TRUE, not_found, ps, nid, <<>>)
  ELSE LET page == CHOOSE p \in ps : p.share_code = share_code IN
       detail_body(ps, nid, us, user, page.user, page.slug, TRUE)

\* PageForm and PageSettingsFormSet have no user field: a bound form keeps
\* the owner of its instance
form_owner(page, f) == page.user

\* ModelForm construct_instance: the instance with the form data applied
apply_form(page, f) == PageRow(page.id, form_owner(page, f), f)

\* create taking the owner from a posted user field when there is one
instance_user_from_post(user, req) ==
  IF req.posted_user # "" THEN req.posted_user ELSE user.username

\* create: instance.user = request.user
instance_user(user, req) == user.username

\* body of create
create_body(ps, nid, user, req) ==
  IF req.method # "POST"
  THEN WikiOutcome(TRUE, Response(200, "html", ""), ps, nid, <<>>)
  ELSE IF ~req.form_valid
  \* the view falls off its end and returns None
  THEN WikiOutcome(TRUE, ServerError("ValueError"), ps, nid, <<>>)
  ELSE IF ~is_authenticated(user)
  \* instance.user = AnonymousUser()
  THEN WikiOutcome(TRUE, ServerError("ValueError"), ps, nid, <<>>)
  ELSE LET row == PageRow(nid, instance_user(user, req), req.form)
           r == save(ps, row)
       IN
       IF r.raised # ""
       THEN WikiOutcome(TRUE, ServerError(r.raised), ps, nid,
                        <<SaveEntry(row, r.raised)>>)
       ELSE WikiOutcome(TRUE,
              IF req.action = "update" THEN Redirect("wiki:update")
              ELSE IF req.action = "detail" THEN Redirect("wiki:detail")
              ELSE ServerError("Exception"),
              r.pages, nid + 1, <<SaveEntry(row, "")>>)

\* body of update
update_body(ps, nid, us, user, username, slug, share, req) ==
  IF ~\E u \in us : u.username = username
  THEN WikiOutcome(TRUE, not_found, ps, nid, <<>>)
  ELSE IF ~\E p \in ps : p.user = username /\ p.slug = slug
  THEN WikiOutcome(TRUE, Redirect("wiki:create_with_slug"), ps, nid, <<>>)
  ELSE LET page == CHOOSE p \in ps : p.user = username /\ p.slug = slug IN
  IF ~can_edit(page, user)
  THEN WikiOutcome(TRUE, Redirect("wiki:index"), ps, nid, <<>>)
  ELSE IF req.method # "POST"
  THEN WikiOutcome(TRUE, Response(200, "html", ""), ps, nid, <<>>)
  ELSE IF ~req.form_valid
  THEN WikiOutcome(TRUE, ServerError("ValueError"), ps, nid, <<>>)
  ELSE LET row == apply_form(page, req.form)
           r == save(ps, row)
       IN
       IF r.raised # ""
       THEN WikiOutcome(TRUE, ServerError(r.raised), ps, nid,
                        <<SaveEntry(row, r.raised)>>)
       ELSE WikiOutcome(TRUE,
              IF req.action = "update"
              THEN Redirect(IF share THEN "wiki:share_update" ELSE "wiki:update")
              ELSE IF req.action = "detail"
              THEN Redirect(IF share THEN "wiki:share_detail" ELSE "wiki:detail")
              ELSE ServerError("Exception"),
              r.pages, nid, <<SaveEntry(row, "")>>)

\* body of delete
delete_body(ps, nid, user, req) ==
  IF ~\E p \in ps : p.id = req.id
  THEN WikiOutcome(TRUE, Response(404, "html", "Http404"), ps, nid, <<>>)
  ELSE LET page == CHOOSE p \in ps : p.id = req.id IN
       IF can_delete(page, user)
       THEN WikiOutcome(TRUE, Redirect("wiki:index"), ps \ {page}, nid, <<>>)
       ELSE WikiOutcome(TRUE, Redirect("wiki:index"), ps, nid, <<>>)

\* formset.save(): the changed forms are saved one after the other
RECURSIVE formset_save(_, _, _)
formset_save(ps, forms, log) ==
  IF forms = <<>> THEN [raised |-> "", pages |-> ps, saves |-> log]
  ELSE LET page == CHOOSE p \in ps : p.id = Head(forms).id
           row == apply_form(page, Head(forms).form)
           r == save(ps, row)
       IN
       IF row = page THEN formset_save(ps, Tail(forms), log)
       ELSE IF r.raised # ""
       THEN [raised |-> r.raised, pages |-> ps,
             saves |-> Append(log, SaveEntry(row, r.raised))]
       ELSE formset_save(r.pages, Tail(forms), Append(log, SaveEntry(row, "")))

\* page_settings binding the formset to the pages of every user
settings_queryset_all(ps, user) == ps

\* page_settings: PageTable.objects.filter(user=request.user)
settings_queryset(ps, user) == {p \in ps : p.user = user.username}

\* body of page_settings; a form whose id is not in the queryset makes the
\* formset invalid
page_settings_body(ps, nid, user, req) ==
  IF req.method # "POST"
  THEN WikiOutcome(TRUE, Response(200, "html", ""), ps, nid, <<>>)
  ELSE IF ~is_authenticated(user)
  \* filter(user=AnonymousUser()): the value is not a valid UUID
  THEN WikiOutcome(TRUE, ServerError("InvalidUUID"), ps, nid, <<>>)
  ELSE IF \/ ~req.form_valid
          \/ \E i \in DOMAIN req.forms :
               ~\E p \in settings_queryset(ps, user) : p.id = req.forms[i].id
  THEN WikiOutcome(TRUE, ServerError("Exception"), ps, nid, <<>>)
  ELSE LET r == formset_save(ps, req.forms, <<>>) IN
       IF r.raised # ""
       THEN WikiOutcome(TRUE, ServerError(r.raised), r.pages, nid, r.saves)
       ELSE WikiOutcome(TRUE,
              IF req.action = "continue" THEN Redirect("wiki:page_settings")
              ELSE IF req.action = "end" THEN Redirect("wiki:index")
              ELSE ServerError("Exception"),
              r.pages, nid, r.saves)

\* a response produced before any wrapped view was entered
Blocked(out, ps, nid) == WikiOutcome(FALSE, out.response, ps, nid, <<>>)

\* the wrapped view, through cognito_login_required
login_required_view(req, user, body, ps, nid) ==
  IF cognito_login_required(req, user, body).invoked THEN body
  ELSE Blocked(cognito_login_required(req, user, body), ps, nid)

\* the URL resolver calls the wiki view
wiki_response(ps, nid, us, user, req) ==
  CASE req.view = "create" ->
         login_required_view(req, user, create_body(ps, nid, user, req), ps, nid)
    [] req.view = "update" ->
         login_required_view(req, user,
           update_body(ps, nid, us, user, req.username, req.slug, FALSE, req),
           ps, nid)
    [] req.view = "share_update" ->
         IF ~\E p \in ps : p.share_code = req.share_code
         THEN WikiOutcome(FALSE, not_found, ps, nid, <<>>)
         ELSE LET page == CHOOSE p \in ps : p.share_code = req.share_code IN
              login_required_view(req, user,
                update_body(ps, nid, us, user, page.user, page.slug, TRUE, req),
                ps, nid)
    [] req.view = "delete" ->
         login_required_view(req, user, delete_body(ps, nid, user, req), ps, nid)
    [] req.view = "index" -> index_body(ps, nid, user)
    [] req.view = "detail" ->
         detail_body(ps, nid, us, user, req.username, req.slug, FALSE)
    [] req.view = "share_detail" ->
         share_detail_body(ps, nid, us, user, req.share_code)
    [] OTHER ->
         login_required_view(req, user, page_settings_body(ps, nid, user, req),
                             ps, nid)

----------------------------------------------------------------------------
(* requests the wiki model is explored with *)

\* the registered users of the wiki model
WikiUsers ==
  { UserRow("alice", "a@x", FALSE, FALSE), UserRow("bob", "b@x", FALSE, FALSE) }

\* the create form as first rendered, with its pre-filled share code
BlankForm(code) ==
  [slug |-> "s1", public |-> FALSE, edit_permission |-> FALSE, share |-> FALSE,
   share_edit_permission |-> FALSE, share_code |-> code]

\* the forms a client submits: base with the slug, the public/edit pair or the
\* share/share-edit pair set to any value
OneAspectForms(base) ==
  {[base EXCEPT !.slug = sl] : sl \in Slugs}
  \cup {[base EXCEPT !.public = b[1], !.edit_permission = b[2]] :
          b \in BOOLEAN \X BOOLEAN}
  \cup {[base EXCEPT !.share = b[1], !.share_edit_permission = b[2]] :
          b \in BOOLEAN \X BOOLEAN}

WikiRequest(view, method, f, valid) ==
  [view |-> view, method |-> method, form |-> f, form_valid |-> valid,
   action |-> "detail", json_client |-> FALSE, posted_user |-> ""]

\* GET, a POST that fails field validation, and the POSTs of forms, with or
\* without an extra POST field 'user'
Submissions(view, forms) ==
  {WikiRequest(view, "GET", BlankForm(None), TRUE),
   WikiRequest(view, "POST", BlankForm(None), FALSE)}
  \cup {[WikiRequest(view, "POST", f, TRUE) EXCEPT !.posted_user = u] :
          f \in forms, u \in {"", "alice", "bob"}}

CreateRequests(nid) ==
  IF nid > MaxPages THEN {WikiRequest("create", "GET", BlankForm(None), TRUE)}
  ELSE Submissions("create", OneAspectForms(BlankForm(share_code_of(nid))))

\* the forms submitted for the page a request resolves to
FormsFor(found) ==
  IF found = {} THEN {BlankForm(None)}
  ELSE OneAspectForms(FormOf(CHOOSE p \in found : TRUE))

UpdateRequests(ps) ==
  UNION {
    {r @@ [username |-> t[1], slug |-> t[2]] :
       r \in Submissions("update",
               FormsFor({p \in ps : p.user = t[1] /\ p.slug = t[2]}))} :
    t \in ({"alice", "bob"} \X Slugs) \cup {<<"nobody", "s1">>} }

ShareUpdateRequests(ps) ==
  UNION {
    {r @@ [share_code |-> c] :
       r \in Submissions("share_update",
               FormsFor({p \in ps : p.share_code = c}))} :
    c \in {p.share_code : p \in ps} \cup {share_code_of(0)} }

DeleteRequests ==
  {[view |-> "delete", method |-> "POST", id |-> i, json_client |-> FALSE] :
     i \in 1..MaxPages}

\* formsets of at most k forms over the pages own, in id order
RECURSIVE FormSeqs(_, _)
FormSeqs(own, k) ==
  IF k = 0 THEN {<<>>}
  ELSE {<<>>} \cup
       UNION { {<<[id |-> p.id, form |-> f]>> \o rest :
                  f \in OneAspectForms(FormOf(p)),
                  rest \in FormSeqs({q \in own : q.id > p.id}, k - 1)} :
               p \in own }

PageSettingsRequest(method, forms, valid) ==
  [view |-> "page_settings", method |-> method, forms |-> forms,
   form_valid |-> valid, action |-> "end", json_client |-> FALSE]

PageSettingsRequests(ps, user) ==
  LET own == IF is_authenticated(user)
             THEN {p \in ps : p.user = user.username} ELSE {}
  IN
  {PageSettingsRequest("GET", <<>>, TRUE),
   PageSettingsRequest("POST", <<>>, FALSE)}
  \cup {PageSettingsRequest("POST", fs, TRUE) : fs \in FormSeqs(own, MaxForms)}
  \cup UNION { {PageSettingsRequest("POST", <<[id |-> p.id, form |-> f]>>, TRUE) :
                   f \in OneAspectForms(FormOf(p))} : p \in ps \ own }

DetailRequests ==
  {[view |-> "detail", method |-> "GET", username |-> t[1], slug |-> t[2],
    json_client |-> FALSE] :
     t \in ({"alice", "bob"} \X Slugs) \cup {<<"nobody", "s1">>}}

ShareDetailRequests(ps) ==
  {[view |-> "share_detail", method |-> "GET", share_code |-> c,
    json_client |-> FALSE] :
     c \in {p.share_code : p \in ps} \cup {share_code_of(0)}}

IndexRequests == {[view |-> "index", method |-> "GET", json_client |-> FALSE]}

WikiRequests(ps, nid, user) ==
  IndexRequests \cup CreateRequests(nid) \cup UpdateRequests(ps) \cup ShareUpdateRequests(ps)
    \cup DeleteRequests \cup PageSettingsRequests(ps, user)
    \cup DetailRequests \cup ShareDetailRequests(ps)

InitWiki ==
  /\ conf = Settings(FALSE, PoolId, ClientId, ClientSecret)
  /\ users = WikiUsers
  /\ pc = "idle"
  /\ request = NoRequest
  /\ token = None
  /\ calls = <<>>
  /\ verified = <<>>
  /\ new_id_token = None
  /\ cognito_claims = NoneClaims
  /\ cognito_username = ""
  /\ request_user = NoUser
  /\ invoked = FALSE
  /\ response = NoResponse
  /\ pages = {}
  /\ next_id = 1
  /\ saves = <<>>
  /\ MOCK_USERS = NoMockUsers
  /\ SCRIPT_NAME = Unset

\* one request to a wiki view; request.user is what the middleware left
HandleWikiRequest ==
  /\ pc = "idle"
  /\ \E user \in {AnonymousUser} \cup users :
     \E req \in WikiRequests(pages, next_id, user) :
     \E out \in {wiki_response(pages, next_id, users, user, req)} :
       /\ request' = req
       /\ request_user' = user
       /\ invoked' = out.invoked
       /\ response' = out.response
       /\ pages' = out.pages
       /\ next_id' = out.next_id
       /\ saves' = out.saves
  /\ pc' = "done"
  /\ UNCHANGED <<conf, users, token, calls, verified, new_id_token,
                 cognito_claims, cognito_username, MOCK_USERS, SCRIPT_NAME>>

NextWiki == HandleWikiRequest \/ SendResponse

SpecWiki == InitWiki /\ [][NextWiki]_vars

----------------------------------------------------------------------------
(* properties of the page store *)

\* the stored rows with this id: one row, or none
StoredRow(ps, id) == {p \in ps : p.id = id}

\* C2: every stored page with edit_permission is public, and a save of a row
\* with edit_permission but not public raises ValidationError and leaves the
\* stored row as it was
C2_EditNeedsPublic ==
  [][ /\ \A p \in pages' : p.edit_permission => p.public
      /\ \A i \in DOMAIN saves' :
           (saves'[i].row.edit_permission /\ ~saves'[i].row.public) =>
             /\ saves'[i].raised = "ValidationError"
             /\ StoredRow(pages', saves'[i].row.id)
                  = StoredRow(pages, saves'[i].row.id) ]_vars

C2_Witness ==
  /\ pc = "done"
  /\ request.view \in {"update", "share_update"}
  /\ \E i \in DOMAIN saves :
       /\ saves[i].row.edit_permission /\ ~saves[i].row.public
       /\ saves[i].raised = "ValidationError"
       /\ \E p \in pages : p.id = saves[i].row.id /\ p.slug = saves[i].row.slug
  /\ \E p \in pages : p.edit_permission /\ p.public

\* C3: every stored page with share_edit_permission is shared, and a save of
\* a row with share_edit_permission but not share raises ValidationError and
\* leaves the stored row as it was
C3_ShareEditNeedsShare ==
  [][ /\ \A p \in pages' : p.share_edit_permission => p.share
      /\ \A i \in DOMAIN saves' :
           (saves'[i].row.share_edit_permission /\ ~saves'[i].row.share) =>
             /\ saves'[i].raised = "ValidationError"
             /\ StoredRow(pages', saves'[i].row.id)
                  = StoredRow(pages, saves'[i].row.id) ]_vars

C3_Witness ==
  /\ pc = "done"
  /\ request.view = "page_settings"
  /\ \E i \in DOMAIN saves :
       /\ saves[i].row.share_edit_permission /\ ~saves[i].row.share
       /\ saves[i].raised = "ValidationError"
       /\ \E p \in pages : p.id = saves[i].row.id /\ p.slug = saves[i].row.slug
  /\ \E p \in pages : p.share_edit_permission /\ p.share

\* C4: no two stored pages have the same owner and slug
C4_OwnerSlugUnique ==
  \A p, q \in pages : (p.user = q.user /\ p.slug = q.slug) => p = q

\* a non-owner editor renames a page to the slug of its owner's other page
C4_Witness ==
  /\ pc = "done"
  /\ request.view = "update"
  /\ Len(saves) = 1
  /\ saves[1].raised = "IntegrityError"
  /\ ~is_owner(saves[1].row, request_user)
  /\ \E p \in pages :
       /\ p.id # saves[1].row.id
       /\ p.user = saves[1].row.user
       /\ p.slug = saves[1].row.slug

----------------------------------------------------------------------------
(* properties of the wiki views *)

\* the requester is the user a detail request names
NamedOwner(req, user) == is_authenticated(user) /\ user.username = req.username

\* C16: detail renders a page to a requester who is not its owner only if the
\* page is public or the request came through share_detail with the page's
\* share code; every other request of a non-owner gets the not-found page
C16_DetailVisibility ==
  (pc = "done" /\ request.view \in {"detail", "share_detail"}) =>
    /\ response.kind = "detail" =>
         /\ response.page \in pages
         /\ request.view = "detail" =>
              (response.page.user = request.username
                 /\ response.page.slug = request.slug)
         /\ ~is_owner(response.page, request_user) =>
              \/ response.page.public
              \/ (request.view = "share_detail"
                    /\ response.page.share_code = request.share_code)
    /\ (request.view = "detail" /\ response.kind # "detail"
          /\ ~NamedOwner(request, request_user)) => response = not_found
    /\ (request.view = "share_detail" /\ response.kind # "detail")
         => response = not_found

\* a non-owner asks for a page that is not public and gets the not-found page
C16_Witness ==
  /\ pc = "done" /\ request.view = "detail"
  /\ response = not_found
  /\ \E p \in pages :
       /\ p.user = request.username /\ p.slug = request.slug
       /\ ~p.public /\ p.share
       /\ ~is_owner(p, request_user)

\* C17: share_detail does not render a page that is neither shared nor public
\* to a non-owner, whatever share code the request carries
C17_ShareFlagGates ==
  (pc = "done" /\ request.view = "share_detail") =>
    \A p \in pages :
      (p.share_code = request.share_code /\ ~p.share /\ ~p.public
         /\ ~is_owner(p, request_user))
      => response.kind # "detail"

\* the page an update or share_update request resolves to
UpdateTarget(ps, req) ==
  IF req.view = "update"
  THEN {p \in ps : p.user = req.username /\ p.slug = req.slug}
  ELSE {p \in ps : p.share_code = req.share_code}

\* C18: a POST to update or share_update changes a stored page only when the
\* requester owns the page or the page has edit_permission; otherwise no page
\* changes and the response redirects to the index
C18_UpdatePermission ==
  [][ (pc = "idle" /\ pc' = "done"
         /\ request'.view \in {"update", "share_update"}
         /\ request'.method = "POST") =>
        /\ \A q \in pages \ pages' :
             /\ q \in UpdateTarget(pages, request')
             /\ is_owner(q, request_user') \/ q.edit_permission
        /\ \A q \in pages' \ pages : \E p \in pages \ pages' : p.id = q.id
        /\ \A p \in UpdateTarget(pages, request') :
             ~(is_owner(p, request_user') \/ p.edit_permission) =>
               (pages' = pages /\ response' = Redirect("wiki:index")) ]_vars

\* a non-owner edits a page that has edit_permission
C18_Witness ==
  /\ pc = "done" /\ request.view \in {"update", "share_update"}
  /\ request.method = "POST"
  /\ Len(saves) = 1 /\ saves[1].raised = ""
  /\ saves[1].row \in pages
  /\ FormOf(saves[1].row) = request.form
  /\ ~is_owner(saves[1].row, request_user)
  /\ \E p \in pages : p.share_edit_permission /\ ~p.edit_permission

\* C19: a valid POST of a logged-in non-owner to share_update with the page's
\* share code changes the page if and only if the page has share and
\* share_edit_permission
C19_ShareEditGoverns ==
  [][ (pc = "idle" /\ pc' = "done" /\ request'.view = "share_update"
         /\ request'.method = "POST" /\ request'.form_valid) =>
        \A p \in UpdateTarget(pages, request') :
          ( /\ is_authenticated(request_user')
            /\ ~is_owner(p, request_user')
            /\ apply_form(p, request'.form) # p
            /\ save(pages, apply_form(p, request'.form)).raised = "" )
          => ((p \notin pages') <=> (p.share /\ p.share_edit_permission)) ]_vars

\* C20: delete removes no page but the one with the given id, and that one
\* only when the requester owns it or it has edit_permission; the response to
\* a delete of a stored page redirects to the index
C20_DeletePermission ==
  [][ (pc = "idle" /\ pc' = "done" /\ request'.view = "delete") =>
        /\ pages' \subseteq pages
        /\ \A p \in pages \ pages' :
             /\ p.id = request'.id
             /\ is_owner(p, request_user') \/ p.edit_permission
        /\ \A p \in pages :
             p.id = request'.id =>
               /\ response' = Redirect("wiki:index")
               /\ ~(is_owner(p, request_user') \/ p.edit_permission)
                    => pages' = pages ]_vars

\* the page with the given id was deleted by this request; another page stays
C20_Witness ==
  /\ pc = "done" /\ request.view = "delete"
  /\ response = Redirect("wiki:index")
  /\ request.id < next_id
  /\ ~\E p \in pages : p.id = request.id
  /\ pages # {}

\* C21: a page_settings POST leaves every page of another user as it was and
\* stores no page for another user
C21_SettingsOwnPagesOnly ==
  [][ (pc = "idle" /\ pc' = "done" /\ request'.view = "page_settings"
         /\ request'.method = "POST") =>
        /\ \A p \in pages : ~is_owner(p, request_user') => p \in pages'
        /\ \A q \in pages' \ pages : is_owner(q, request_user') ]_vars

\* a user posted a changed form for another user's page and was refused
C21_Witness ==
  /\ pc = "done" /\ request.view = "page_settings" /\ request.method = "POST"
  /\ request.form_valid
  /\ Len(request.forms) = 1
  /\ \E p \in pages :
       /\ p.id = request.forms[1].id
       /\ ~is_owner(p, request_user)
       /\ FormOf(p) # request.forms[1].form
  /\ response = ServerError("Exception")

C23_IndexListing ==
  (pc = "done" /\ request.view = "index") =>
    /\ response.pages \subseteq pages
    /\ \A p \in pages :
         p \in response.pages <=> (p.public \/ is_owner(p, request_user))
    /\ ~is_authenticated(request_user) =>
         response.pages = {p \in pages : p.public}

\* a logged-in requester sees their own private page and not another user's
C23_Witness ==
  /\ pc = "done" /\ request.view = "index"
  /\ is_authenticated(request_user)
  /\ \E p \in response.pages : ~p.public /\ p.user = request_user.username
  /\ \E p \in pages \ response.pages : p.user # request_user.username

----------------------------------------------------------------------------
(* mock/cognito.py *)

\* an exception: its class and the symbols of str(e)
Raised(class, message) ==
  [raised |-> class, message |-> message, has_result |-> FALSE]
\* 'needle' in error_msg
in_str(needle, message) == \E i \in DOMAIN message : message[i] = needle

\* the passwords a client types and len(password) of each
PasswordLen == ( "pw_alice1" :> 9 ) @@ ( "pw_other" :> 8 ) @@ ( "short" :> 7 )

\* an item of the dict MOCK_USERS
MockUser(username, email, password) ==
  [username |-> username, email |-> email, password |-> password,
   confirmed |-> TRUE]

\* username in MOCK_USERS
in_mock_users(store, username) == \E u \in store : u.username = username
\* MOCK_USERS[username]
mock_user(store, username) == CHOOSE u \in store : u.username = username

\* mock_sign_up
mock_sign_up(store, username, password, email) ==
  IF in_mock_users(store, username)
  THEN Raised("Exception", <<"UsernameExistsException">>) @@ [store |-> store]
  ELSE IF PasswordLen[password] < 8
  THEN Raised("Exception", <<"InvalidPasswordException",
                             ": Password must be at least 8 characters">>)
         @@ [store |-> store]
  ELSE [raised |-> "", message |-> <<>>, UserConfirmed |-> TRUE,
        store |-> store \cup {MockUser(username, email, password)}]

\* base64.b64encode(json.dumps(token_payload).encode()).decode()
b64encode_json(payload) ==
  CHOOSE s \in DOMAIN MockPayload : MockPayload[s] = payload

\* the AuthenticationResult of a provider reply
AuthenticationResult(access, id, refresh) ==
  [raised |-> "", message |-> <<>>, has_result |-> TRUE,
   AccessToken |-> access, IdToken |-> id, RefreshToken |-> refresh]

\* mock_initiate_auth answering with the access token as the id token
mock_initiate_auth_access_as_id(store, username, password) ==
  IF ~in_mock_users(store, username)
  THEN Raised("Exception", <<"UserNotFoundException">>)
  ELSE IF mock_user(store, username).password # password
  THEN Raised("Exception", <<"NotAuthorizedException",
                             ": Incorrect username or password">>)
  ELSE IF ~mock_user(store, username).confirmed
  THEN Raised("Exception", <<"UserNotConfirmedException">>)
  ELSE LET mock_token ==
             b64encode_json([username |-> username,
                             email |-> mock_user(store, username).email])
       IN AuthenticationResult(<<"mock-access-", mock_token>>,
                               <<"mock-access-", mock_token>>,
                               <<"mock-refresh-", mock_token>>)

\* mock_initiate_auth
mock_initiate_auth(store, username, password) ==
  IF ~in_mock_users(store, username)
  THEN Raised("Exception", <<"UserNotFoundException">>)
  ELSE IF mock_user(store, username).password # password
  THEN Raised("Exception", <<"NotAuthorizedException",
                             ": Incorrect username or password">>)
  ELSE IF ~mock_user(store, username).confirmed
  THEN Raised("Exception", <<"UserNotConfirmedException">>)
  ELSE LET mock_token ==
             b64encode_json([username |-> username,
                             email |-> mock_user(store, username).email])
       IN AuthenticationResult(<<"mock-access-", mock_token>>,
                               <<"mock-id-", mock_token>>,
                               <<"mock-refresh-", mock_token>>)

\* mock_confirm_sign_up: any confirmation code is accepted
mock_confirm_sign_up(store, username) ==
  IF ~in_mock_users(store, username)
  THEN Raised("Exception", <<"UserNotFoundException">>) @@ [store |-> store]
  ELSE [raised |-> "", message |-> <<>>,
        store |-> (store \ {mock_user(store, username)})
                    \cup {[mock_user(store, username) EXCEPT !.confirmed = TRUE]}]

----------------------------------------------------------------------------
(* accounts/views.py: login, sign-up and confirmation *)

NoBody == [none |-> TRUE]
\* a response of an account view
AccountResponse(status, kind, error) ==
  Response(status, kind, error) @@ [refresh_token_cookie |-> None, body |-> NoBody]
\* render(request, template, context) with context['error']
Render(template, error) == AccountResponse(200, template, error)
\* what a view returned, the provider calls it made and MOCK_USERS after it
AccountOutcome(resp, log, store) ==
  [response |-> resp, calls |-> log, MOCK_USERS |-> store]
\* an entry of the provider call log
ProviderCall(op, result) ==
  [op |-> op, raised |-> result.raised,
   has_result |-> "has_result" \in DOMAIN result /\ result.has_result]
\* require_http_methods: HttpResponseNotAllowed
NotAllowed(store) == AccountOutcome(AccountResponse(405, "not_allowed", ""), <<>>, store)

\* botocore ClientError raised by the cognito-idp client
ClientError(code, text) ==
  Raised(code, <<"An error occurred (", code, ") when calling the operation: ", text>>)

\* what admin_initiate_auth can answer for a user
AdminInitiateAuthReplies(username) ==
  { ClientError("NotAuthorizedException", "Incorrect username or password."),
    ClientError("UserNotFoundException", "User does not exist."),
    ClientError("UserNotConfirmedException", "User is not confirmed."),
    ClientError("InternalErrorException", "Internal error."),
    \* a challenge: the reply has no AuthenticationResult
    [raised |-> "", message |-> <<>>, has_result |-> FALSE] }
  \cup (IF username \in DOMAIN IdTokenOf
        THEN {AuthenticationResult(<<"access_alice">>, IdTokenOf[username],
                                   <<"rt_alice">>)}
        ELSE {})

\* what confirm_sign_up can answer
ConfirmSignUpReplies ==
  { ClientError("CodeMismatchException", "Invalid verification code."),
    ClientError("ExpiredCodeException", "Invalid code provided."),
    ClientError("NotAuthorizedException", "User cannot be confirmed."),
    ClientError("UserNotFoundException", "Username/client id combination not found."),
    ClientError("LimitExceededException", "Attempt limit exceeded."),
    [raised |-> "", message |-> <<>>, has_result |-> FALSE] }

\* response['AuthenticationResult'] raises KeyError on a reply without it
auth_result(r) ==
  IF r.raised = "" /\ ~r.has_result
  THEN Raised("KeyError", <<"'AuthenticationResult'">>)
  ELSE r

\* login_page setting only the id_token cookie
set_login_cookies_id_only(resp, result) ==
  [resp EXCEPT !.id_token_cookie = result.IdToken]

\* login_page: the two set_cookie calls on the redirect
set_login_cookies(resp, result) ==
  [resp EXCEPT !.id_token_cookie = result.IdToken,
               !.refresh_token_cookie = result.RefreshToken]

\* login_page: the except clause
login_page_except(result) ==
  IF in_str("UserNotConfirmedException", result.message)
  THEN Render("accounts/login.html", "User is not confirmed")
  ELSE IF \/ in_str("NotAuthorizedException", result.message)
          \/ in_str("Incorrect username or password", result.message)
  THEN Render("accounts/login.html", "Incorrect username or password")
  ELSE IF in_str("UserNotFoundException", result.message)
  THEN Render("accounts/login.html", "User not found")
  ELSE Render("accounts/login.html", "Login failed")

\* login_page; reply is the provider's answer when it is asked
login_page(c, store, req, reply) ==
  IF req.method \notin {"GET", "POST"} THEN NotAllowed(store)
  ELSE IF req.method # "POST"
  THEN AccountOutcome(Render("accounts/login.html", ""), <<>>, store)
  ELSE IF req.username = "" \/ req.password = ""
  THEN AccountOutcome(
         Render("accounts/login.html", "Username and password are required"),
         <<>>, store)
  ELSE LET r == IF c.USE_MOCK
                THEN mock_initiate_auth(store, req.username, req.password)
                ELSE reply
           op == IF c.USE_MOCK THEN "mock_initiate_auth" ELSE "admin_initiate_auth"
           result == auth_result(r)
       IN AccountOutcome(
            IF result.raised = ""
            THEN set_login_cookies(
                   [AccountResponse(302, "redirect", "")
                      EXCEPT !.location = "wiki:index"], result)
            ELSE login_page_except(result),
            <<ProviderCall(op, r)>>, store)

\* what sign_up can answer
SignUpReplies ==
  { ClientError("UsernameExistsException", "User already exists"),
    ClientError("InvalidPasswordException", "Password did not conform with policy"),
    ClientError("InternalErrorException", "Internal error."),
    [raised |-> "", message |-> <<>>, has_result |-> FALSE, UserConfirmed |-> FALSE] }

\* signup_page: the except clause
signup_page_except(result) ==
  IF in_str("UsernameExistsException", result.message)
  THEN Render("accounts/signup.html", "Username already exists")
  ELSE IF in_str("InvalidPasswordException", result.message)
  THEN Render("accounts/signup.html", "Invalid password")
  ELSE Render("accounts/signup.html", "Sign up failed")

\* signup_page
signup_page(c, store, req, reply) ==
  IF req.method \notin {"GET", "POST"} THEN NotAllowed(store)
  ELSE IF req.method # "POST"
  THEN AccountOutcome(Render("accounts/signup.html", ""), <<>>, store)
  ELSE IF req.username = "" \/ req.email = "" \/ req.password = ""
  THEN AccountOutcome(
         Render("accounts/signup.html", "Username, email, and password are required"),
         <<>>, store)
  ELSE LET r == IF c.USE_MOCK
                THEN mock_sign_up(store, req.username, req.password, req.email)
                ELSE reply @@ [store |-> store]
           op == IF c.USE_MOCK THEN "mock_sign_up" ELSE "sign_up"
       IN AccountOutcome(
            IF r.raised # "" THEN signup_page_except(r)
            ELSE IF r.UserConfirmed
            THEN [Render("accounts/signup.html", "")
                    EXCEPT !.body = [success |-> "Account created and confirmed"]]
            ELSE [AccountResponse(302, "redirect", "")
                    EXCEPT !.location = "confirm_page"],
            <<ProviderCall(op, r)>>, r.store)

\* confirm_page: the except clause
confirm_page_except(result) ==
  IF in_str("CodeMismatchException", result.message)
  THEN Render("accounts/confirm.html", "Invalid confirmation code")
  ELSE IF in_str("ExpiredCodeException", result.message)
  THEN Render("accounts/confirm.html", "Confirmation code has expired")
  ELSE Render("accounts/confirm.html", "Confirmation failed")

\* confirm_page
confirm_page(c, store, req, reply) ==
  IF req.method \notin {"GET", "POST"} THEN NotAllowed(store)
  ELSE IF req.method # "POST"
  THEN AccountOutcome(Render("accounts/confirm.html", ""), <<>>, store)
  ELSE IF req.username = "" \/ req.code = ""
  THEN AccountOutcome(
         Render("accounts/confirm.html", "Username and confirmation code are required"),
         <<>>, store)
  ELSE LET r == IF c.USE_MOCK
                THEN mock_confirm_sign_up(store, req.username)
                ELSE reply @@ [store |-> store]
           op == IF c.USE_MOCK THEN "mock_confirm_sign_up" ELSE "confirm_sign_up"
       IN AccountOutcome(
            IF r.raised # "" THEN confirm_page_except(r)
            ELSE [Render("accounts/confirm.html", "")
                    EXCEPT !.body = [success |-> "Account confirmed successfully"]],
            <<ProviderCall(op, r)>>, r.store)

\* JsonResponse({'error': ...}, status=status)
JsonError(status, error) == AccountResponse(status, "json", error)

\* json.loads(request.body) followed by data.get(...)
json_body(req) ==
  IF req.body = "malformed" THEN Raised("JSONDecodeError", <<"Expecting value">>)
  ELSE IF req.body # "dict"
  THEN Raised("AttributeError", <<"'list' object has no attribute 'get'">>)
  ELSE [raised |-> "", message |-> <<>>, has_result |-> FALSE]

\* api_login answering UserNotFoundException like any other failure
api_login_except_no_404(result) ==
  IF result.raised = "NotAuthorizedException"
  THEN JsonError(401, "Incorrect username or password")
  ELSE JsonError(500, "str(e)")

\* api_login: the except clauses
api_login_except(result) ==
  IF result.raised = "NotAuthorizedException"
  THEN JsonError(401, "Incorrect username or password")
  ELSE IF result.raised = "UserNotFoundException"
  THEN JsonError(404, "User not found")
  ELSE JsonError(500, "str(e)")

\* api_login
api_login(c, store, req, reply) ==
  IF req.method # "POST" THEN NotAllowed(store)
  ELSE IF json_body(req).raised # ""
  THEN AccountOutcome(api_login_except(json_body(req)), <<>>, store)
  ELSE IF req.username = "" \/ req.password = ""
  THEN AccountOutcome(JsonError(400, "Username and password required"), <<>>, store)
  ELSE AccountOutcome(
         IF auth_result(reply).raised = ""
         THEN [AccountResponse(200, "json", "")
                 EXCEPT !.body = [id_token |-> reply.IdToken,
                                  access_token |-> reply.AccessToken,
                                  refresh_token |-> reply.RefreshToken]]
         ELSE api_login_except(auth_result(reply)),
         <<ProviderCall("admin_initiate_auth", reply)>>, store)

\* api_confirm without the ExpiredCodeException clause
api_confirm_except_no_expired(result) ==
  IF result.raised = "CodeMismatchException"
  THEN JsonError(400, "Invalid verification code")
  ELSE IF result.raised = "NotAuthorizedException"
  THEN JsonError(401, "User cannot be confirmed")
  ELSE IF result.raised = "UserNotFoundException"
  THEN JsonError(404, "User not found")
  ELSE JsonError(500, "Confirmation failed")

\* api_confirm: the except clauses
api_confirm_except(result) ==
  IF result.raised = "CodeMismatchException"
  THEN JsonError(400, "Invalid verification code")
  ELSE IF result.raised = "ExpiredCodeException"
  THEN JsonError(400, "Verification code has expired")
  ELSE IF result.raised = "NotAuthorizedException"
  THEN JsonError(401, "User cannot be confirmed")
  ELSE IF result.raised = "UserNotFoundException"
  THEN JsonError(404, "User not found")
  ELSE JsonError(500, "Confirmation failed")

\* api_confirm
api_confirm(c, store, req, reply) ==
  IF req.method # "POST" THEN NotAllowed(store)
  ELSE IF json_body(req).raised # ""
  THEN AccountOutcome(api_confirm_except(json_body(req)), <<>>, store)
  ELSE IF req.username = "" \/ req.code = ""
  THEN AccountOutcome(JsonError(400, "Username and confirmation code required"),
                      <<>>, store)
  ELSE AccountOutcome(
         IF reply.raised = ""
         THEN [AccountResponse(200, "json", "")
                 EXCEPT !.body = [message |-> "Account confirmed successfully"]]
         ELSE api_confirm_except(reply),
         <<ProviderCall("confirm_sign_up", reply)>>, store)

----------------------------------------------------------------------------
(* lambda_function.py and the requests the account model is explored with *)

\* lambda_handler: the value it stores in os.environ['SCRIPT_NAME']
script_name(stage) ==
  IF stage # "" /\ stage # "$default" THEN <<"/", stage>> ELSE <<>>

\* requestContext.stage of the API Gateway event ('' when absent)
Stages == {"", "$default", "prod"}

AccountRequest(view, method, stage, username, password, email, code, body) ==
  [view |-> view, method |-> method, stage |-> stage, username |-> username,
   password |-> password, email |-> email, code |-> code, body |-> body,
   json_client |-> FALSE]

LoginPageRequests ==
  {AccountRequest("login_page", m, st, u, pw, "", "", "form") :
     m \in {"GET", "POST", "PUT"}, st \in Stages, u \in {"", "alice", "bob"},
     pw \in {"", "pw_alice1", "pw_other"}}

SignupPageRequests ==
  {AccountRequest("signup_page", m, "prod", u, pw, e, "", "form") :
     m \in {"GET", "POST"}, u \in {"", "alice", "bob"},
     pw \in {"", "pw_alice1", "pw_other", "short"}, e \in {"", "a@x", "b@x"}}

ConfirmPageRequests ==
  {AccountRequest("confirm_page", m, "$default", u, "", "", code, "form") :
     m \in {"GET", "POST"}, u \in {"", "alice"}, code \in {"", "123456"}}

ApiLoginRequests ==
  {AccountRequest("api_login", m, "", u, pw, "", "", b) :
     m \in {"GET", "POST"}, u \in {"", "alice", "bob"},
     pw \in {"", "pw_alice1"}, b \in {"dict", "list", "malformed"}}

ApiConfirmRequests ==
  {AccountRequest("api_confirm", m, "", u, "", "", code, b) :
     m \in {"GET", "POST"}, u \in {"", "alice"}, code \in {"", "123456"},
     b \in {"dict", "list", "malformed"}}

AccountRequests ==
  LoginPageRequests \cup SignupPageRequests \cup ConfirmPageRequests
    \cup ApiLoginRequests \cup ApiConfirmRequests

\* the answers the provider can give to the call a view makes
ProviderReplies(req) ==
  CASE req.view \in {"login_page", "api_login"} -> AdminInitiateAuthReplies(req.username)
    [] req.view = "signup_page" -> SignUpReplies
    [] OTHER -> ConfirmSignUpReplies

\* the URL resolver calls the account view
account_view(c, store, req, reply) ==
  CASE req.view = "login_page" -> login_page(c, store, req, reply)
    [] req.view = "signup_page" -> signup_page(c, store, req, reply)
    [] req.view = "confirm_page" -> confirm_page(c, store, req, reply)
    [] req.view = "api_login" -> api_login(c, store, req, reply)
    [] OTHER -> api_confirm(c, store, req, reply)

InitAccounts ==
  /\ conf \in { Settings(TRUE, PoolId, ClientId, ClientSecret),
                Settings(FALSE, PoolId, ClientId, ClientSecret) }
  /\ users = {}
  /\ pc = "idle"
  /\ request = NoRequest
  /\ token = None
  /\ calls = <<>>
  /\ verified = <<>>
  /\ new_id_token = None
  /\ cognito_claims = NoneClaims
  /\ cognito_username = ""
  /\ request_user = NoUser
  /\ invoked = FALSE
  /\ response = NoResponse
  /\ pages = {}
  /\ next_id = 1
  /\ saves = <<>>
  /\ MOCK_USERS = NoMockUsers
  /\ SCRIPT_NAME = Unset

\* one invocation of lambda_handler that reaches an account view; the request
\* carries no token, so the middleware leaves it anonymous
HandleAccountRequest ==
  /\ pc = "idle"
  /\ \E req \in AccountRequests :
     \E reply \in ProviderReplies(req) :
     \E out \in {account_view(conf, MOCK_USERS, req, reply)} :
       /\ request' = req
       /\ SCRIPT_NAME' = script_name(req.stage)
       /\ request_user' = AnonymousUser
       /\ invoked' = TRUE
       /\ response' = out.response
       /\ calls' = out.calls
       /\ MOCK_USERS' = out.MOCK_USERS
  /\ pc' = "done"
  /\ UNCHANGED <<conf, users, token, verified, new_id_token, cognito_claims,
                 cognito_username, pages, next_id, saves>>

\* the browser's next request after a login: it carries the cookies of the
\* login response, or presents the refresh token as the id token
IssuedTokenRequests(resp) ==
  {[Authorization |-> <<>>, id_token |-> t,
    refresh_token |-> resp.refresh_token_cookie, view |-> "current_user",
    json_client |-> TRUE, user |-> NoUser] :
     t \in {resp.id_token_cookie, resp.refresh_token_cookie} \ {None}}

\* the request that follows a login goes through the middleware
PresentIssuedToken ==
  /\ pc = "done"
  /\ request.view = "login_page"
  /\ response.id_token_cookie # None
  /\ \E req \in IssuedTokenRequests(response) : CallMiddleware(req)

NextAccounts == HandleAccountRequest \/ PresentIssuedToken \/ SendResponse

SpecAccounts == InitAccounts /\ [][NextAccounts]_vars

----------------------------------------------------------------------------
(* properties of the account views *)

\* the provider was asked once and answered with an AuthenticationResult
AuthSucceeded ==
  Len(calls) = 1 /\ calls[1].raised = "" /\ calls[1].has_result

\* C11: api_login answers 400 without asking the provider when the username
\* or the password is missing, 401 on NotAuthorizedException, 404 on
\* UserNotFoundException, 500 on every other failure, and puts the tokens in
\* the body only of the 200 that follows a successful authentication
C11_ApiLoginStatus ==
  (pc = "done" /\ request.view = "api_login" /\ request.method = "POST") =>
    /\ (request.body = "dict" /\ (request.username = "" \/ request.password = ""))
         => (response.status = 400 /\ calls = <<>>)
    /\ request.body # "dict" => (response.status = 500 /\ calls = <<>>)
    /\ \A i \in DOMAIN calls :
         /\ calls[i].op = "admin_initiate_auth"
         /\ calls[i].raised = "NotAuthorizedException" => response.status = 401
         /\ calls[i].raised = "UserNotFoundException" => response.status = 404
         /\ calls[i].raised
              \notin {"", "NotAuthorizedException", "UserNotFoundException"}
              => response.status = 500
         /\ (calls[i].raised = "" /\ ~calls[i].has_result) => response.status = 500
    /\ AuthSucceeded => response.status = 200
    /\ response.status = 200 => AuthSucceeded
    /\ ("id_token" \in DOMAIN response.body) <=> response.status = 200

C11_Witness ==
  /\ pc = "done" /\ request.view = "api_login"
  /\ Len(calls) = 1
  /\ calls[1].raised = "UserNotFoundException"
  /\ response.status = 404

\* C12: api_confirm answers 400 when the username or the code is missing, 400
\* on CodeMismatchException and ExpiredCodeException, 401 on
\* NotAuthorizedException, 404 on UserNotFoundException, 500 on every other
\* failure, and the success message only when confirm_sign_up did not raise
C12_ApiConfirmStatus ==
  (pc = "done" /\ request.view = "api_confirm" /\ request.method = "POST") =>
    /\ (request.body = "dict" /\ (request.username = "" \/ request.code = ""))
         => (response.status = 400 /\ calls = <<>>)
    /\ request.body # "dict" => (response.status = 500 /\ calls = <<>>)
    /\ \A i \in DOMAIN calls :
         /\ calls[i].op = "confirm_sign_up"
         /\ calls[i].raised \in {"CodeMismatchException", "ExpiredCodeException"}
              => response.status = 400
         /\ calls[i].raised = "NotAuthorizedException" => response.status = 401
         /\ calls[i].raised = "UserNotFoundException" => response.status = 404
         /\ calls[i].raised
              \notin {"", "CodeMismatchException", "ExpiredCodeException",
                      "NotAuthorizedException", "UserNotFoundException"}
              => response.status = 500
    /\ ("message" \in DOMAIN response.body)
         <=> (Len(calls) = 1 /\ calls[1].raised = "")
    /\ ("message" \in DOMAIN response.body) => response.status = 200

C12_Witness ==
  /\ pc = "done" /\ request.view = "api_confirm"
  /\ Len(calls) = 1
  /\ calls[1].raised = "ExpiredCodeException"
  /\ response.status = 400

\* C13: login_page sets the id_token and the refresh_token cookie, both, on a
\* redirect to the wiki index exactly when the authentication succeeded; on
\* missing credentials or any provider error it renders the login form with
\* an error message and sets neither cookie
C13_LoginCookies ==
  (pc = "done" /\ request.view = "login_page") =>
    /\ AuthSucceeded =>
         /\ response.id_token_cookie # None
         /\ response.refresh_token_cookie # None
         /\ response.status = 302
         /\ response.location = "wiki:index"
    /\ ~AuthSucceeded =>
         /\ response.id_token_cookie = None
         /\ response.refresh_token_cookie = None
         /\ response.status # 302
         /\ request.method = "POST" =>
              (response.kind = "accounts/login.html" /\ response.error # "")

C13_Witness ==
  /\ pc = "done" /\ request.view = "login_page"
  /\ ~conf.USE_MOCK
  /\ AuthSucceeded
  /\ response.id_token_cookie = <<"jwt_alice">>
  /\ response.refresh_token_cookie = <<"rt_alice">>

\* C14: the response to a request is one a process that has handled no
\* request before gives to it
C14_NoSharedState ==
  (pc = "done" /\ "stage" \in DOMAIN request) =>
    \E reply \in ProviderReplies(request) :
      response = account_view(conf, NoMockUsers, request, reply).response

\* C15: with USE_MOCK, verify_token on the IdToken mock_initiate_auth issues
\* to a user returns that user's username and registered email, and a token
\* that does not start with 'mock-id-' gives None
C15_MockRoundTrip ==
  (pc = "done" /\ conf.USE_MOCK) =>
    \A i \in DOMAIN verified :
      /\ \A u \in MOCK_USERS :
           ( /\ mock_initiate_auth(MOCK_USERS, u.username, u.password).raised = ""
             /\ verified[i].token
                  = mock_initiate_auth(MOCK_USERS, u.username, u.password).IdToken )
           => verified[i].result =
                [raised |-> "",
                 value |-> [username |-> u.username, email |-> u.email]]
      /\ ~startswith(verified[i].token, MockIdPrefix)
           => verified[i].result.value = NoneClaims

C15_Witness ==
  /\ pc = "done" /\ conf.USE_MOCK
  /\ Len(verified) = 1
  /\ verified[1].token = <<"mock-id-", "b64_bob_a">>
  /\ cognito_username = "bob"
  /\ \E u \in MOCK_USERS : u.username = "bob" /\ u.email = "a@x"

====
